---- MODULE Spec2Model ----
(***************************************************************************)
(* Pseudo dynamic memory: the block pool with its bit-packed occupancy     *)
(* map (src/dmemory.h) and the generic stack built on it                   *)
(* (src/stack_dm.h), as state machines.                                    *)
(*                                                                         *)
(* Memory the C code touches outside its two static arrays is "wild":      *)
(* a bit of __free_memory past its last byte, a block of __d_memory past   *)
(* MEMORY_SIZE, anything reached through a NULL array.  What a read there  *)
(* returns is not determined by the source, so it is an input of the       *)
(* action (beyond, wild: any value); a store there changes neither array.  *)
(* A trap on such an access ends the program in the state before the call: *)
(* it adds no reachable state and is not an action.                        *)
(***************************************************************************)
EXTENDS Integers, Sequences, FiniteSets

\* ------------------------------------------------------------ configuration
\* Both are #ifndef-guarded macros that a program sets before the #include
\* (512 and 8 when it sets nothing); here the pool is small, so that it is
\* exhausted by a few calls.
MEMORY_SIZE == 16
CAPACITY == 4

\* ------------------------------------------------------------------ bounds
MaxCount == 2       \* the pool's direct client asks for 1..MaxCount blocks,
BigCount == 7       \*   or for BigCount blocks
MaxRuns == 3        \* runs the direct client holds at a time
MaxWild == 1        \* a read outside __d_memory returns one of 0..MaxWild
MaxSize == 6        \* a stack is not pushed beyond this size
MaxCapacity == 8    \* an array is not grown beyond this capacity
MaxUnder == 2       \* the size of an array is not taken below -MaxUnder
MaxElem == 2        \* an element given to append is one of 1..MaxElem
MaxIdx == 4         \* an index given to at and remove_at is one of 0..MaxIdx
MaxStart == 1       \* an array given as input has its run at one of 0..MaxStart
MaxScan == 5        \* the scan on any bitmap is asked for 1..MaxScan blocks
MaxFirst == 5       \* of two stacks, the first is not pushed beyond this size,
MaxOther == 1       \*   the second not beyond this one

NULL == -1
NumBytes == MEMORY_SIZE \div 8
Blocks == 0 .. (MEMORY_SIZE - 1)
NumStacks == 2
Stacks == 1 .. NumStacks
WildValues == 0 .. MaxWild
Counts == (1 .. MaxCount) \cup {BigCount}

VARIABLES
    free_memory,    \* __free_memory: byte index -> 0..255, bit set = in use
    d_memory,       \* __d_memory: block index -> stored value (0 = NULL)
    live,           \* runs the direct client holds: sequence of [start, count]
    stacks,         \* stack id -> [st, arr, size, capacity]
    shadow,         \* stack id -> the values pushed and not yet popped
    array,          \* the array: [st, start, size, capacity]
    step,           \* a push in progress: [pc, s, value, c, newArray]
    last            \* the last call: what it was given and what it returned

vars == <<free_memory, d_memory, live, stacks, shadow, array, step, last>>

\* ------------------------------------------------------------ bit packing
\* 1 << k for k in 0..7
Pow2(k) == <<1, 2, 4, 8, 16, 32, 64, 128>>[k + 1]

\* byte with the single bit idx % 8 set
bit_encoder(idx) == Pow2(idx % 8) % 256

\* whether idx addresses a bit of __free_memory
InMap(idx) == idx >= 0 /\ (idx \div 8) < NumBytes

\* b & mask # 0, for a single-bit mask
TestBit(b, mask) == (b \div mask) % 2 = 1

set_block_used(fm, idx) ==
    IF InMap(idx)
    THEN [fm EXCEPT ![idx \div 8] =
            IF TestBit(@, bit_encoder(idx)) THEN @ ELSE @ + bit_encoder(idx)]
    ELSE fm

set_block_free(fm, idx) ==
    IF InMap(idx)
    THEN [fm EXCEPT ![idx \div 8] =
            IF TestBit(@, bit_encoder(idx)) THEN @ - bit_encoder(idx) ELSE @]
    ELSE fm

\* beyond: what a read past the end of __free_memory finds (TRUE = free)
check_block_free(fm, idx, beyond) ==
    IF InMap(idx) THEN ~TestBit(fm[idx \div 8], bit_encoder(idx)) ELSE beyond

\* ------------------------------------------------------------ the allocator
\* inner loop of __find_free_chunk: first j in from..upto-1 that is in use,
\* or NULL when all of them are free
RECURSIVE Probe(_, _, _, _)
Probe(fm, j, upto, beyond) ==
    IF j >= upto THEN NULL
    ELSE IF ~check_block_free(fm, j, beyond) THEN j
    ELSE Probe(fm, j + 1, upto, beyond)

ProbeEnd(i, numBlocks) == i + (numBlocks - 1)

\* the outer loop with the skip-ahead one block too far (i = j + 1)
RECURSIVE ScanSkipFar(_, _, _, _)
ScanSkipFar(fm, i, numBlocks, beyond) ==
    IF i >= MEMORY_SIZE THEN NULL
    ELSE IF ~check_block_free(fm, i, beyond) THEN ScanSkipFar(fm, i + 1, numBlocks, beyond)
    ELSE LET j == Probe(fm, i, ProbeEnd(i, numBlocks), beyond)
         IN  IF j = NULL THEN i ELSE ScanSkipFar(fm, j + 2, numBlocks, beyond)

\* outer loop of __find_free_chunk from index i: the start found, or NULL
RECURSIVE Scan(_, _, _, _)
Scan(fm, i, numBlocks, beyond) ==
    IF i >= MEMORY_SIZE THEN NULL
    ELSE IF ~check_block_free(fm, i, beyond) THEN Scan(fm, i + 1, numBlocks, beyond)
    ELSE LET j == Probe(fm, i, ProbeEnd(i, numBlocks), beyond)
         IN  IF j = NULL THEN i ELSE Scan(fm, j + 1, numBlocks, beyond)

RECURSIVE MarkUsed(_, _, _)
MarkUsed(fm, j, upto) ==
    IF j > upto THEN fm ELSE MarkUsed(set_block_used(fm, j), j + 1, upto)

\* __find_free_chunk: [ret |-> start or NULL, fm |-> the map afterwards]
find_free_chunk(fm, numBlocks, beyond) ==
    LET i == Scan(fm, 0, numBlocks, beyond)
    IN  IF i = NULL THEN [ret |-> NULL, fm |-> fm]
        ELSE [ret |-> i, fm |-> MarkUsed(fm, i, i + (numBlocks - 1))]

dmalloc_array(fm, size, beyond) == find_free_chunk(fm, size, beyond)

\* the loop of dmfree_array with <= for <
RECURSIVE FreeLoopInclusive(_, _, _)
FreeLoopInclusive(fm, i, upto) ==
    IF i > upto THEN fm ELSE FreeLoopInclusive(set_block_free(fm, i), i + 1, upto)

\* for (i = index; i < size + index; i++) __set_block_free(i)
RECURSIVE FreeLoop(_, _, _)
FreeLoop(fm, i, upto) ==
    IF i >= upto THEN fm ELSE FreeLoop(set_block_free(fm, i), i + 1, upto)

\* dmfree_array; a NULL start gives an index far outside the map
dmfree_array(fm, start, size) ==
    IF start = NULL THEN fm ELSE FreeLoop(fm, start, size + start)

RECURSIVE CountUsed(_, _)
CountUsed(fm, i) ==
    IF i >= MEMORY_SIZE THEN 0
    ELSE (IF check_block_free(fm, i, TRUE) THEN 0 ELSE 1) + CountUsed(fm, i + 1)

amount_memory_used(fm) == (CountUsed(fm, 0) * 100) \div MEMORY_SIZE

\* ------------------------------------------------------------------- views
Used(fm, i) == ~check_block_free(fm, i, TRUE)
UsedSet(fm) == {i \in Blocks : Used(fm, i)}
RunBlocks(r) == r.start .. (r.start + r.count - 1)

\* The record of the last call: op, the stack it was made on (0: the pool's
\* direct client), its argument n, what it returned, the start its allocation
\* returned (NoAlloc when it allocated nothing) and the capacity of the stack
\* when it was made.
NoAlloc == NULL - 1
NoCall == [op |-> "none", who |-> 0, n |-> 0, ret |-> NULL, got |-> NoAlloc, cap |-> 0]

\* no array made yet; no push in progress
NoArray == [st |-> "none", start |-> NULL, size |-> 0, capacity |-> 0]
Idle == [pc |-> "idle", s |-> 0, value |-> 0, c |-> 0, newArray |-> NoAlloc]

\* ------------------------------------------------------------------- state
initialize_memory ==
    /\ free_memory = [b \in 0 .. (NumBytes - 1) |-> 0]
    /\ d_memory = [i \in Blocks |-> 0]

Init ==
    /\ initialize_memory
    /\ live = << >>
    /\ stacks = [s \in Stacks |-> [st |-> "none", arr |-> NULL, size |-> 0, capacity |-> 0]]
    /\ shadow = [s \in Stacks |-> << >>]
    /\ array = NoArray
    /\ step = Idle
    /\ last = NoCall

\* ------------------------------------------------- the pool's direct client
\* The client's record of the runs it holds, kept in order of start and count
\* (the pool itself records nothing about a run).
Before(a, b) == a.start < b.start \/ (a.start = b.start /\ a.count <= b.count)

Insert(runs, r) ==
    LET k == Cardinality({i \in 1 .. Len(runs) : Before(runs[i], r)})
    IN  [i \in 1 .. (Len(runs) + 1) |->
            IF i <= k THEN runs[i] ELSE IF i = k + 1 THEN r ELSE runs[i - 1]]

Allocate(n, beyond) ==
    /\ LET r == dmalloc_array(free_memory, n, beyond)
       IN  /\ (r.ret = NULL \/ Len(live) < MaxRuns)
           /\ free_memory' = r.fm
           /\ live' = IF r.ret = NULL THEN live
                      ELSE Insert(live, [start |-> r.ret, count |-> n])
           /\ last' = [op |-> "allocate", who |-> 0, n |-> n, ret |-> r.ret, got |-> r.ret,
                       cap |-> 0]
    /\ UNCHANGED <<d_memory, stacks, shadow, array, step>>

Release(k) ==
    /\ k \in 1 .. Len(live)
    /\ free_memory' = dmfree_array(free_memory, live[k].start, live[k].count)
    /\ live' = [i \in 1 .. (Len(live) - 1) |-> IF i < k THEN live[i] ELSE live[i + 1]]
    /\ last' = [op |-> "release", who |-> 0, n |-> live[k].count, ret |-> live[k].start,
                got |-> NoAlloc, cap |-> 0]
    /\ UNCHANGED <<d_memory, stacks, shadow, array, step>>

Next ==
    \/ \E n \in Counts, beyond \in BOOLEAN : Allocate(n, beyond)
    \/ \E k \in 1 .. MaxRuns : Release(k)

Spec == Init /\ [][Next]_vars

\* ------------------------------------------------- the scan on any bitmap
\* __find_free_chunk as a function of the bitmap: every bitmap is an input,
\* and one allocate is applied to it.
Bitmaps == [0 .. (NumBytes - 1) -> 0 .. 255]
ScanCounts == 1 .. MaxScan

InitScan ==
    /\ free_memory \in Bitmaps
    /\ d_memory = [i \in Blocks |-> 0]
    /\ live = << >>
    /\ stacks = [s \in Stacks |-> [st |-> "none", arr |-> NULL, size |-> 0, capacity |-> 0]]
    /\ shadow = [s \in Stacks |-> << >>]
    /\ array = NoArray
    /\ step = Idle
    /\ last = NoCall

ScanOnce(n, beyond) == last = NoCall /\ Allocate(n, beyond)

NextScan == \E n \in ScanCounts, beyond \in BOOLEAN : ScanOnce(n, beyond)

SpecScan == InitScan /\ [][NextScan]_vars

\* ---------------------------------------------------------------- the stack
\* TYPECOEF scales an index of TYPE* to blocks: arr[TYPECOEF * i] is block
\* arr + i.  wild is what a read outside __d_memory returns.
Load(dm, arr, i, wild) ==
    IF arr # NULL /\ (arr + i) \in Blocks THEN dm[arr + i] ELSE wild

Store(dm, arr, i, v) ==
    IF arr # NULL /\ (arr + i) \in Blocks THEN [dm EXCEPT ![arr + i] = v] ELSE dm

\* for (i = 0; i < size; i++) newArray[i] = arr[i], one element at a time
RECURSIVE CopyLoop(_, _, _, _, _, _)
CopyLoop(dm, i, size, newArray, arr, wild) ==
    IF i >= size THEN dm
    ELSE CopyLoop(Store(dm, newArray, i, Load(dm, arr, i, wild)),
                  i + 1, size, newArray, arr, wild)

make_stack(s, beyond) ==
    /\ stacks[s].st = "none"
    /\ LET r == dmalloc_array(free_memory, CAPACITY, beyond)
       IN  /\ free_memory' = r.fm
           /\ stacks' = [stacks EXCEPT ![s] =
                    [st |-> "live", arr |-> r.ret, size |-> 0, capacity |-> CAPACITY]]
           /\ last' = [op |-> "make", who |-> s, n |-> 0, ret |-> NULL, got |-> r.ret,
                       cap |-> 0]
    /\ UNCHANGED <<d_memory, live, shadow, array, step>>

\* the stack after the growth step of push: [fm, dm, arr, capacity, got]
Grow(stack, beyond, wild) ==
    LET c == (CAPACITY \div 2) + stack.capacity
        r == dmalloc_array(free_memory, c, beyond)
    IN  [fm |-> dmfree_array(r.fm, stack.arr, stack.capacity),
         dm |-> CopyLoop(d_memory, 0, stack.size, r.ret, stack.arr, wild),
         arr |-> r.ret, capacity |-> c, got |-> r.ret]

NoGrow(stack) ==
    [fm |-> free_memory, dm |-> d_memory, arr |-> stack.arr,
     capacity |-> stack.capacity, got |-> NoAlloc]

push(s, value, beyond, wild) ==
    /\ stacks[s].st = "live"
    /\ stacks[s].size < MaxSize
    /\ LET stack == stacks[s]
           g == IF stack.size = stack.capacity THEN Grow(stack, beyond, wild)
                ELSE NoGrow(stack)
       IN  /\ free_memory' = g.fm
           /\ d_memory' = Store(g.dm, g.arr, stack.size, value)
           /\ stacks' = [stacks EXCEPT ![s] =
                    [st |-> "live", arr |-> g.arr, size |-> stack.size + 1,
                     capacity |-> g.capacity]]
           /\ last' = [op |-> "push", who |-> s, n |-> value, ret |-> NULL, got |-> g.got,
                       cap |-> stack.capacity]
    /\ shadow' = [shadow EXCEPT ![s] = Append(@, value)]
    /\ UNCHANGED <<live, array, step>>

\* the shrink test without its test of size
ShrinksWhenever(capacity, size) == capacity > CAPACITY

Shrinks(capacity, size) == capacity > CAPACITY /\ size < capacity \div 2

pop(s, wild) ==
    /\ stacks[s].st = "live"
    /\ stacks[s].size > 0
    /\ LET stack == stacks[s]
           size == stack.size - 1
           half == stack.capacity \div 2
           shrink == Shrinks(stack.capacity, size)
       IN  /\ free_memory' =
                IF shrink
                THEN dmfree_array(free_memory,
                                  IF stack.arr = NULL THEN NULL ELSE stack.arr + half, half)
                ELSE free_memory
           /\ stacks' = [stacks EXCEPT ![s] =
                    [st |-> "live", arr |-> stack.arr, size |-> size,
                     capacity |-> IF shrink THEN half ELSE stack.capacity]]
           /\ last' = [op |-> "pop", who |-> s, n |-> 0,
                       ret |-> Load(d_memory, stack.arr, size, wild), got |-> NoAlloc,
                       cap |-> stack.capacity]
    /\ shadow' = [shadow EXCEPT ![s] = SubSeq(@, 1, Len(@) - 1)]
    /\ UNCHANGED <<d_memory, live, array, step>>

delete_stack(s) ==
    /\ stacks[s].st = "live"
    /\ free_memory' = dmfree_array(free_memory, stacks[s].arr, stacks[s].capacity)
    /\ stacks' = [stacks EXCEPT ![s].st = "deleted"]
    /\ last' = [op |-> "delete", who |-> s, n |-> 0, ret |-> NULL, got |-> NoAlloc,
                cap |-> stacks[s].capacity]
    /\ UNCHANGED <<d_memory, live, shadow, array, step>>

\* the driver pushes 1, 2, 3, ...: the value pushed onto a stack of k elements
\* is k + 1
NextValue(s) == stacks[s].size + 1

\* one stack, alone in the pool
NextStack ==
    \/ \E beyond \in BOOLEAN : make_stack(1, beyond)
    \/ \E beyond \in BOOLEAN, wild \in WildValues : push(1, NextValue(1), beyond, wild)
    \/ \E wild \in WildValues : pop(1, wild)
    \/ delete_stack(1)

SpecStack == Init /\ [][NextStack]_vars

\* two stacks in the same pool, as the int stack and the point stack of main;
\* the second is kept small
NextTwo ==
    \/ \E s \in Stacks, beyond \in BOOLEAN : make_stack(s, beyond)
    \/ \E beyond \in BOOLEAN, wild \in WildValues :
            stacks[1].size < MaxFirst /\ push(1, NextValue(1), beyond, wild)
    \/ \E beyond \in BOOLEAN, wild \in WildValues :
            stacks[2].size < MaxOther /\ push(2, NextValue(2), beyond, wild)
    \/ \E s \in Stacks, wild \in WildValues : pop(s, wild)
    \/ \E s \in Stacks : delete_stack(s)

SpecTwo == Init /\ [][NextTwo]_vars

\* ------------------------------------------------ push, statement by statement
\* push_TYPE as the sequence of its statements; step.pc is the statement to
\* execute next, step.c and step.newArray are the locals of the growth block
\* (newArray is NoAlloc in a push that does not grow).
push_alloc(s, value, beyond) ==
    /\ step.pc = "idle"
    /\ stacks[s].st = "live"
    /\ stacks[s].size < MaxSize
    /\ IF stacks[s].size = stacks[s].capacity
       THEN LET c == (CAPACITY \div 2) + stacks[s].capacity
                r == dmalloc_array(free_memory, c, beyond)
            IN  /\ free_memory' = r.fm
                /\ step' = [pc |-> "copy", s |-> s, value |-> value, c |-> c,
                            newArray |-> r.ret]
       ELSE /\ free_memory' = free_memory
            /\ step' = [pc |-> "store", s |-> s, value |-> value, c |-> 0,
                        newArray |-> NoAlloc]
    /\ UNCHANGED <<d_memory, live, stacks, shadow, array, last>>

push_copy(wild) ==
    /\ step.pc = "copy"
    /\ d_memory' = CopyLoop(d_memory, 0, stacks[step.s].size, step.newArray,
                            stacks[step.s].arr, wild)
    /\ step' = [step EXCEPT !.pc = "release"]
    /\ UNCHANGED <<free_memory, live, stacks, shadow, array, last>>

push_release ==
    /\ step.pc = "release"
    /\ free_memory' = dmfree_array(free_memory, stacks[step.s].arr, stacks[step.s].capacity)
    /\ step' = [step EXCEPT !.pc = "assign"]
    /\ UNCHANGED <<d_memory, live, stacks, shadow, array, last>>

push_assign ==
    /\ step.pc = "assign"
    /\ stacks' = [stacks EXCEPT ![step.s].arr = step.newArray, ![step.s].capacity = step.c]
    /\ step' = [step EXCEPT !.pc = "store"]
    /\ UNCHANGED <<free_memory, d_memory, live, shadow, array, last>>

push_store ==
    /\ step.pc = "store"
    /\ LET stack == stacks[step.s]
       IN  /\ d_memory' = Store(d_memory, stack.arr, stack.size, step.value)
           /\ stacks' = [stacks EXCEPT ![step.s].size = @ + 1]
           /\ last' = [op |-> "push", who |-> step.s, n |-> step.value, ret |-> NULL,
                       got |-> step.newArray,
                       cap |-> IF step.newArray = NoAlloc THEN stack.capacity
                               ELSE step.c - (CAPACITY \div 2)]
    /\ shadow' = [shadow EXCEPT ![step.s] = Append(@, step.value)]
    /\ step' = Idle
    /\ UNCHANGED <<free_memory, live, array>>

\* one stack, alone in the pool, its pushes statement by statement
NextSteps ==
    \/ \E beyond \in BOOLEAN : step.pc = "idle" /\ make_stack(1, beyond)
    \/ \E beyond \in BOOLEAN : push_alloc(1, NextValue(1), beyond)
    \/ \E wild \in WildValues : push_copy(wild)
    \/ push_release
    \/ push_assign
    \/ push_store
    \/ \E wild \in WildValues : step.pc = "idle" /\ pop(1, wild)
    \/ step.pc = "idle" /\ delete_stack(1)

SpecSteps == Init /\ [][NextSteps]_vars

\* ---------------------------------------------------------------- the array
\* make_array_TYPE sets capacity and size and leaves start as it finds it:
\* junk is the value the uninitialized pointer holds (NULL: not a block of the
\* pool).
JunkStarts == {NULL} \cup Blocks

make_array(junk) ==
    /\ array.st = "none"
    /\ array' = [st |-> "live", start |-> junk, size |-> 0, capacity |-> CAPACITY]
    /\ last' = [op |-> "make_array", who |-> 0, n |-> 0, ret |-> NULL, got |-> NoAlloc,
                cap |-> 0]
    /\ UNCHANGED <<free_memory, d_memory, live, stacks, shadow, step>>

\* append_TYPE: the growth step, and nothing else
append(elem, beyond, wild) ==
    /\ array.st = "live"
    /\ array.capacity <= MaxCapacity
    /\ LET a == [arr |-> array.start, size |-> array.size, capacity |-> array.capacity]
           g == IF array.size = array.capacity THEN Grow(a, beyond, wild) ELSE NoGrow(a)
       IN  /\ free_memory' = g.fm
           /\ d_memory' = g.dm
           /\ array' = [array EXCEPT !.start = g.arr, !.capacity = g.capacity]
           /\ last' = [op |-> "append", who |-> 0, n |-> elem, ret |-> NULL, got |-> g.got,
                       cap |-> array.capacity]
    /\ UNCHANGED <<live, stacks, shadow, step>>

at(a, dm, idx, wild) == Load(dm, a.start, idx, wild)

at_array(idx, wild) ==
    /\ array.st = "live"
    /\ last' = [op |-> "at", who |-> 0, n |-> idx, ret |-> at(array, d_memory, idx, wild),
                got |-> NoAlloc, cap |-> array.capacity]
    /\ UNCHANGED <<free_memory, d_memory, live, stacks, shadow, array, step>>

remove_last(wild) ==
    /\ array.st = "live"
    /\ array.size > 0 - MaxUnder
    /\ array' = [array EXCEPT !.size = @ - 1]
    /\ last' = [op |-> "remove_last", who |-> 0, n |-> 0,
                ret |-> Load(d_memory, array.start, array.size - 1, wild),
                got |-> NoAlloc, cap |-> array.capacity]
    /\ UNCHANGED <<free_memory, d_memory, live, stacks, shadow, step>>

\* the loop of remove_at_TYPE started one element late
RECURSIVE ShiftLoopLate(_, _, _, _, _)
ShiftLoopLate(dm, i, size, start, wild) ==
    IF i + 1 >= size THEN dm
    ELSE ShiftLoopLate(Store(dm, start, i, Load(dm, start, i + 1, wild)),
                       i + 1, size, start, wild)

\* for (i = idx + 1; i < size; i++) start[i - 1] = start[i]
RECURSIVE ShiftLoop(_, _, _, _, _)
ShiftLoop(dm, i, size, start, wild) ==
    IF i >= size THEN dm
    ELSE ShiftLoop(Store(dm, start, i - 1, Load(dm, start, i, wild)),
                   i + 1, size, start, wild)

\* remove_at_TYPE has no return statement: what its caller receives is any
\* value
remove_at(idx, wild, any) ==
    /\ array.st = "live"
    /\ array.size > 0 - MaxUnder
    /\ d_memory' = ShiftLoop(d_memory, idx + 1, array.size, array.start, wild)
    /\ array' = [array EXCEPT !.size = @ - 1]
    /\ last' = [op |-> "remove_at", who |-> 0, n |-> idx, ret |-> any, got |-> NoAlloc,
                cap |-> array.capacity]
    /\ UNCHANGED <<free_memory, live, stacks, shadow, step>>

delete_array ==
    /\ array.st = "live"
    /\ free_memory' = dmfree_array(free_memory, array.start, array.capacity)
    /\ array' = [array EXCEPT !.st = "deleted"]
    /\ last' = [op |-> "delete_array", who |-> 0, n |-> 0, ret |-> NULL, got |-> NoAlloc,
                cap |-> array.capacity]
    /\ UNCHANGED <<d_memory, live, stacks, shadow, step>>

Elems == 1 .. MaxElem
Indexes == 0 .. MaxIdx

\* the program of line_tracker_001.c with the int array it declares: a stack
\* and an array in the same pool
NextArray ==
    \/ \E junk \in JunkStarts : make_array(junk)
    \/ \E elem \in Elems, beyond \in BOOLEAN, wild \in WildValues : append(elem, beyond, wild)
    \/ \E idx \in Indexes, wild \in WildValues : at_array(idx, wild)
    \/ \E wild \in WildValues : remove_last(wild)
    \/ \E idx \in Indexes, wild \in WildValues, any \in WildValues : remove_at(idx, wild, any)
    \/ delete_array
    \/ \E beyond \in BOOLEAN : make_stack(1, beyond)
    \/ delete_stack(1)

SpecArray == Init /\ [][NextArray]_vars

\* An array as remove_at_TYPE is handed one: a run of CAPACITY blocks at start,
\* in use, whose first size blocks hold the elements.  The struct's fields are
\* the caller's to set (append_TYPE never makes size positive), so here they
\* are inputs.
EmptyMap == [b \in 0 .. (NumBytes - 1) |-> 0]

InitGiven ==
    \E start \in 0 .. MaxStart, size \in 0 .. CAPACITY, elems \in [0 .. (CAPACITY - 1) -> Elems] :
        /\ free_memory = MarkUsed(EmptyMap, start, start + (CAPACITY - 1))
        /\ d_memory = [i \in Blocks |->
                IF i >= start /\ i < start + size THEN elems[i - start] ELSE 0]
        /\ array = [st |-> "live", start |-> start, size |-> size, capacity |-> CAPACITY]
        /\ live = << >>
        /\ stacks = [s \in Stacks |-> [st |-> "none", arr |-> NULL, size |-> 0, capacity |-> 0]]
        /\ shadow = [s \in Stacks |-> << >>]
        /\ step = Idle
        /\ last = NoCall

NextGiven ==
    \/ \E elem \in Elems, beyond \in BOOLEAN, wild \in WildValues : append(elem, beyond, wild)
    \/ \E idx \in Indexes, wild \in WildValues : at_array(idx, wild)
    \/ \E wild \in WildValues : remove_last(wild)
    \/ \E idx \in Indexes, wild \in WildValues, any \in WildValues : remove_at(idx, wild, any)
    \/ delete_array

SpecGiven == InitGiven /\ [][NextGiven]_vars

\* ------------------------------------------------------------------ claims
\* the blocks s .. s+n-1 all lie in the pool and are free in fm
IsFreeRun(fm, s, n) == s + n <= MEMORY_SIZE /\ \A k \in s .. (s + n - 1) : ~Used(fm, k)
HasFreeRun(fm, n) == \E s \in Blocks : IsFreeRun(fm, s, n)
LastBlocks == last.ret .. (last.ret + last.n - 1)

\* the stack's run lies in the pool, so that its elements are blocks of d_memory
InPool(stack) == stack.arr # NULL /\ stack.arr + stack.capacity <= MEMORY_SIZE
Elem(stack, dm, i) == dm[stack.arr + i]
RunOf(stack) == stack.arr .. (stack.arr + stack.capacity - 1)
Grew == last.op = "push" /\ last.got # NoAlloc

\* C1: any two runs that are live at the same time occupy disjoint ranges of
\* block indices.
C1_LiveRunsDisjoint ==
    \A i, j \in 1 .. Len(live) :
        i < j => RunBlocks(live[i]) \cap RunBlocks(live[j]) = {}

\* C2: when the pool holds no run of count contiguous free blocks, allocate
\* returns NULL and leaves the occupancy map as it was.
C2_NoRunMeansNull ==
    [][(last'.op = "allocate" /\ ~HasFreeRun(free_memory, last'.n))
        => (last'.ret = NULL /\ free_memory' = free_memory)]_vars

\* C3: a successful allocate returns the lowest s with blocks s .. s+count-1
\* all free before the call, and exactly those blocks go from free to in use.
C3_LowestFreeRun ==
    [][(last'.op = "allocate" /\ last'.ret # NULL)
        => /\ IsFreeRun(free_memory, last'.ret, last'.n)
           /\ \A t \in 0 .. (last'.ret - 1) : ~IsFreeRun(free_memory, t, last'.n)
           /\ UsedSet(free_memory') =
                UsedSet(free_memory) \cup (last'.ret .. (last'.ret + last'.n - 1))]_vars

\* C4: occupancy bit i is set if and only if block i belongs to a live run.
C4_BitIffLive ==
    \A i \in Blocks :
        Used(free_memory, i) <=> (\E k \in 1 .. Len(live) : i \in RunBlocks(live[k]))

\* C5: release(start, count) clears the bits of the blocks start ..
\* start+count-1 and leaves the bit of every other block of the pool as it was.
C5_ReleaseFrame ==
    [][last'.op = "release"
        => \A i \in Blocks :
              Used(free_memory', i) <=>
                (Used(free_memory, i) /\ i \notin last'.ret .. (last'.ret + last'.n - 1))]_vars

\* a release of a run that spans both bytes of the map, with blocks in use on
\* either side of it
C5_Witness ==
    /\ last.op = "release"
    /\ last.ret < 8 /\ last.ret + last.n > 8
    /\ \E i, j \in UsedSet(free_memory) : i < last.ret /\ j >= last.ret + last.n
    /\ LastBlocks \cap UsedSet(free_memory) = {}

\* C6: a stack has 0 <= size <= capacity after make and after every push and
\* pop, a growth or a shrink included.
C6_SizeWithinCapacity ==
    \A s \in Stacks :
        stacks[s].st = "live" => (0 <= stacks[s].size /\ stacks[s].size <= stacks[s].capacity)

\* a push has just grown, to its new capacity less one, a stack that a pop
\* had shrunk below the default capacity
C6_Witness ==
    /\ Grew /\ last.got # NULL
    /\ last.cap < CAPACITY
    /\ stacks[1].capacity = last.cap + (CAPACITY \div 2)
    /\ stacks[1].size = last.cap + 1

\* C7: a push on a full stack that the pool can satisfy gives capacity +
\* CAPACITY/2, keeps the elements 0 .. size-1 and their order, puts the pushed
\* value at index size and adds one to size.
C7_GrowthKeepsElements ==
    [][\A s \in Stacks :
        (/\ last'.op = "push" /\ last'.who = s
         /\ stacks[s].size = stacks[s].capacity
         /\ HasFreeRun(free_memory, stacks[s].capacity + (CAPACITY \div 2))
         /\ InPool(stacks[s]) /\ InPool(stacks'[s]))
        => /\ stacks'[s].capacity = stacks[s].capacity + (CAPACITY \div 2)
           /\ stacks'[s].size = stacks[s].size + 1
           /\ \A i \in 0 .. (stacks[s].size - 1) :
                Elem(stacks'[s], d_memory', i) = Elem(stacks[s], d_memory, i)
           /\ Elem(stacks'[s], d_memory', stacks[s].size) = last'.n]_vars

\* C8: every pop returns the most recently pushed value that has not been
\* popped, and a pop that shrinks leaves the remaining elements as they were.
C8_PopReturnsLastPushed ==
    [][\A s \in Stacks :
        (last'.op = "pop" /\ last'.who = s /\ InPool(stacks[s]))
        => /\ last'.ret = shadow[s][Len(shadow[s])]
           /\ \A i \in 0 .. (stacks'[s].size - 1) :
                Elem(stacks'[s], d_memory', i) = Elem(stacks[s], d_memory, i)]_vars

\* C9: the capacity of a stack never falls below the default capacity.
C9_CapacityAtLeastDefault ==
    \A s \in Stacks : stacks[s].st = "live" => stacks[s].capacity >= CAPACITY

\* C10: a push on a full stack for which the pool returns NULL leaves the
\* stack as it was (run, capacity, size, elements) and its run in use.
C10_FailedGrowthKeepsStack ==
    [][\A s \in Stacks :
        (last'.op = "push" /\ last'.who = s /\ last'.got = NULL)
        => /\ stacks'[s] = stacks[s]
           /\ \A i \in 0 .. (stacks[s].size - 1) :
                (stacks[s].arr + i) \in Blocks
                    => Elem(stacks[s], d_memory', i) = Elem(stacks[s], d_memory, i)
           /\ \A b \in RunOf(stacks[s]) \cap Blocks :
                Used(free_memory, b) => Used(free_memory', b)]_vars

\* C11: while a single stack is alone in the pool, the blocks in use are exactly
\* the capacity blocks of its run, and after its delete no block is in use.
C11_OccupiedIsTheRun ==
    /\ stacks[1].st = "live" => UsedSet(free_memory) = RunOf(stacks[1])
    /\ stacks[1].st = "deleted" => UsedSet(free_memory) = {}

\* the container made by the step owns a fresh run of the default capacity:
\* size 0, capacity CAPACITY, CAPACITY blocks from start that were free before
\* the step and are in use after it
MadeFresh(start, size, capacity, fmBefore, fmAfter) ==
    /\ size = 0
    /\ capacity = CAPACITY
    /\ start # NULL
    /\ IsFreeRun(fmBefore, start, CAPACITY)
    /\ \A b \in start .. (start + CAPACITY - 1) : Used(fmAfter, b)

\* C12: make returns a container of size 0 and of the default capacity that
\* owns a freshly allocated run of that capacity, whose blocks are in use; for
\* the stack and for the array.
C12_MakeOwnsFreshRun ==
    [][/\ \A s \in Stacks :
            (last'.op = "make" /\ last'.who = s)
            => MadeFresh(stacks'[s].arr, stacks'[s].size, stacks'[s].capacity,
                         free_memory, free_memory')
       /\ last'.op = "make_array"
            => MadeFresh(array'.start, array'.size, array'.capacity,
                         free_memory, free_memory')]_vars

\* C13: append adds the element to the end of the array: size is one larger
\* than before and at(old size) returns the element, the capacity having grown
\* by CAPACITY/2 first when size = capacity.
C13_AppendAddsElement ==
    [][last'.op = "append"
        => /\ array'.size = array.size + 1
           /\ \A wild \in WildValues : at(array', d_memory', array.size, wild) = last'.n
           /\ array.size = array.capacity
                => array'.capacity = array.capacity + (CAPACITY \div 2)]_vars

\* the array's run lies in the pool
ArrayInPool(a) == a.start # NULL /\ a.start >= 0 /\ a.start + a.capacity <= MEMORY_SIZE

\* C14: for 0 <= idx < size, removeAt(idx) takes one from size, leaves the
\* elements below idx as they were, moves the element at every k > idx to k-1,
\* and changes neither the capacity nor the occupancy map.
C14_RemoveAtShifts ==
    [][(/\ last'.op = "remove_at"
        /\ 0 <= last'.n /\ last'.n < array.size
        /\ array.size <= array.capacity
        /\ ArrayInPool(array))
        => /\ array'.size = array.size - 1
           /\ \A k \in 0 .. (last'.n - 1) :
                d_memory'[array'.start + k] = d_memory[array.start + k]
           /\ \A k \in (last'.n + 1) .. (array.size - 1) :
                d_memory'[array'.start + k - 1] = d_memory[array.start + k]
           /\ array'.capacity = array.capacity
           /\ array'.start = array.start
           /\ free_memory' = free_memory]_vars

\* a remove_at at an index idx >= 1 has moved an element to idx, and that
\* element differs from the one kept below it
C14_Witness ==
    /\ last.op = "remove_at"
    /\ ArrayInPool(array)
    /\ last.n >= 1 /\ array.size >= last.n + 1
    /\ d_memory[array.start + last.n - 1] # d_memory[array.start + last.n]

\* the blocks that belong to a live run
LiveBlocks == UNION {RunBlocks(live[k]) : k \in 1 .. Len(live)}

\* C15: usagePercent() returns floor(occupied * 100 / MEMORY_SIZE), occupied
\* being the number of blocks in live runs, and the result is in 0 .. 100.
C15_UsagePercent ==
    /\ amount_memory_used(free_memory) = (Cardinality(LiveBlocks) * 100) \div MEMORY_SIZE
    /\ amount_memory_used(free_memory) \in 0 .. 100

\* the n blocks from start lie in the pool and are all in use
RunInUse(fm, start, n) ==
    /\ start # NULL /\ start >= 0 /\ start + n <= MEMORY_SIZE
    /\ \A b \in start .. (start + n - 1) : Used(fm, b)

\* the growth block of a push is in progress
Growing == step.pc # "idle" /\ step.newArray # NoAlloc

\* C16: in a growth step the new run is allocated, then the size elements are
\* copied into it, and only then is the old run released: when the old run is
\* about to be or has been released the new run holds every element, and at
\* every statement of the step the stack's run or the new run has all its
\* blocks in use.
C16_GrowthOrder ==
    Growing =>
        LET stack == stacks[step.s]
        IN  /\ step.pc \in {"release", "assign"}
                => /\ step.newArray # NULL /\ step.newArray + stack.size <= MEMORY_SIZE
                   /\ \A i \in 0 .. (stack.size - 1) :
                        d_memory[step.newArray + i] = shadow[step.s][i + 1]
            /\ \/ RunInUse(free_memory, stack.arr, stack.capacity)
               \/ RunInUse(free_memory, step.newArray, step.c)

\* the outer loop of __find_free_chunk without its skip-ahead: after a probe
\* from i that fails, the scan goes on at i + 1
RECURSIVE ScanRestart(_, _, _, _)
ScanRestart(fm, i, numBlocks, beyond) ==
    IF i >= MEMORY_SIZE THEN NULL
    ELSE IF ~check_block_free(fm, i, beyond) THEN ScanRestart(fm, i + 1, numBlocks, beyond)
    ELSE IF Probe(fm, i, ProbeEnd(i, numBlocks), beyond) = NULL THEN i
    ELSE ScanRestart(fm, i + 1, numBlocks, beyond)

\* C17 as stated: there is a bitmap and a count for which the scan that
\* restarts at i + 1 returns a start that the skip-ahead scan does not return.
C17_SkipAheadSkipsRunStart ==
    \E fm \in [DOMAIN free_memory -> 0 .. 255], n \in ScanCounts, beyond \in BOOLEAN :
        /\ ScanRestart(fm, 0, n, beyond) # NULL
        /\ ScanRestart(fm, 0, n, beyond) # Scan(fm, 0, n, beyond)

\* C17 as amended: the skip-ahead skips no run start; on every bitmap given to
\* allocate and for every count, the scan that restarts at i + 1 and the
\* skip-ahead scan return the same start, or both return none.
C17_SkipAheadSkipsNothing ==
    last = NoCall =>
        \A n \in ScanCounts, beyond \in BOOLEAN :
            ScanRestart(free_memory, 0, n, beyond) = Scan(free_memory, 0, n, beyond)

\* an allocate whose scan skipped ahead: a probe started at the free block i
\* (the first block, or the block after one in use) failed at the block j in
\* use, beyond the free block i + 1, and the run was granted further on
C17_Witness ==
    /\ last.op = "allocate" /\ last.ret # NULL
    /\ \E i, j \in 0 .. (last.ret - 1) :
        /\ i + 1 < j /\ j <= i + last.n - 2
        /\ \A k \in i .. (j - 1) : ~Used(free_memory, k)
        /\ Used(free_memory, j)
        /\ (i = 0 \/ Used(free_memory, i - 1))

\* the scan reads an occupancy bit past the end of the map: what it returns
\* depends on what that read finds
ReadsBeyond(fm, n) == Scan(fm, 0, n, TRUE) # Scan(fm, 0, n, FALSE)

\* C18: every run that allocate(count) grants lies inside the pool, and
\* allocate reads and sets no occupancy bit of index MEMORY_SIZE or more.
C18_RunsInsidePool ==
    [][last'.op = "allocate"
        => /\ last'.ret # NULL => (0 <= last'.ret /\ last'.ret + last'.n <= MEMORY_SIZE)
           /\ ~ReadsBeyond(free_memory, last'.n)]_vars

\* C19: from any reachable bitmap, a successful allocate(count) followed at
\* once by release(returned start, count) gives back the bitmap as it was
\* before the allocate.
C19_AllocateReleaseRoundTrip ==
    \A n \in Counts, beyond \in BOOLEAN :
        LET r == dmalloc_array(free_memory, n, beyond)
        IN  r.ret # NULL => dmfree_array(r.fm, r.ret, n) = free_memory

\* C20: with two stacks in the pool, a make, push, pop or delete on one stack
\* leaves the size, the capacity, the run start and every element of the
\* other, live, stack as they were, and its blocks in use.
C20_OtherStackUntouched ==
    [][\A s, t \in Stacks :
        (/\ s # t
         /\ last'.op \in {"make", "push", "pop", "delete"} /\ last'.who = s
         /\ stacks[t].st = "live")
        => /\ stacks'[t] = stacks[t]
           /\ \A i \in 0 .. (stacks[t].size - 1) :
                (stacks[t].arr # NULL /\ (stacks[t].arr + i) \in Blocks)
                    => Elem(stacks[t], d_memory', i) = Elem(stacks[t], d_memory, i)
           /\ \A b \in RunOf(stacks[t]) \cap Blocks :
                Used(free_memory, b) => Used(free_memory', b)]_vars

====
